---- MODULE Spec2Model ----
(***************************************************************************)
(* Model of prime_search.py: the trial-division primality test is_prime,   *)
(* the range scanner find_primes and the command-line driver that parses   *)
(* two integer arguments and writes the primes of the range to the file    *)
(* primes_{start}_{end}.txt.                                               *)
(*                                                                         *)
(* Text (command-line arguments, file names, file contents) is modelled as *)
(* sequences of one-character strings so that int(), the f-string          *)
(* rendering of integers and the line format are computed, not assumed.    *)
(***************************************************************************)
EXTENDS Integers, Sequences, FiniteSets, TLC

VARIABLES
    mode,        \* entry point of the run: "driver", "scan" or "prime"
    pc,          \* control location
    argv,        \* sys.argv: program name followed by the arguments
    start,       \* driver local `start` (and find_primes parameter)
    end,         \* driver local `end` (and find_primes parameter)
    parsed,      \* number of int() conversions that have returned
    cur,         \* next value the range iterator of find_primes yields
    num,         \* loop variable of find_primes / parameter of is_prime
    i,           \* is_prime local `i`
    ip_ret,      \* return value of the last is_prime call
    fp_primes,   \* find_primes local `primes`
    visited,     \* history: values the for loop of find_primes has yielded
    scanned,     \* history: find_primes has returned to the driver
    primes,      \* driver local `primes`
    output_file, \* driver local `output_file`
    widx,        \* position of the driver's write loop in `primes`
    handle,      \* state of file object f: "none", "open" or "closed"
    opens,       \* history: number of open() calls of this run
    fs,          \* the filesystem: file name -> content
    fs0,         \* history: the filesystem when this run began
    stdout,      \* lines printed to standard output by this run
    exc,         \* how the run ended: "none", "SystemExit", "ValueError", "OSError"
    exit_code,   \* process exit status (-1 while running)
    prev_exc     \* history: how the previous run with these arguments ended

vars == <<mode, pc, argv, start, end, parsed, cur, num, i, ip_ret, fp_primes,
          visited, scanned, primes, output_file, widx, handle, opens, fs, fs0,
          stdout, exc, exit_code, prev_exc>>

-----------------------------------------------------------------------------
(* Bounds of the model. *)

\* largest number of command-line arguments tried
MaxArgs == 3
\* is_prime is tried on every num in -NegNums .. MaxNum
NegNums == 4
MaxNum == 125
\* find_primes is tried on every (start, end) in (-ScanNeg .. ScanMax)^2
ScanNeg == 5
ScanMax == 30

-----------------------------------------------------------------------------
(* Text. *)

Digits == <<"0", "1", "2", "3", "4", "5", "6", "7", "8", "9">>

DigitSet == {Digits[k] : k \in 1..10}

DigitVal(c) == (CHOOSE k \in 1..10 : Digits[k] = c) - 1

Whitespace == {" "}

RECURSIVE LStrip(_)
LStrip(s) ==
    IF s # <<>> /\ Head(s) \in Whitespace THEN LStrip(Tail(s)) ELSE s

RECURSIVE RStrip(_)
RStrip(s) ==
    IF s # <<>> /\ s[Len(s)] \in Whitespace
    THEN RStrip(SubSeq(s, 1, Len(s) - 1))
    ELSE s

\* the digits of an int() literal body: nonempty, digits with single
\* underscores strictly between digits
ValidBody(b) ==
    /\ b # <<>>
    /\ \A k \in 1..Len(b) : b[k] \in DigitSet \cup {"_"}
    /\ b[1] # "_"
    /\ b[Len(b)] # "_"
    /\ \A k \in 1..(Len(b) - 1) : ~(b[k] = "_" /\ b[k + 1] = "_")

RECURSIVE BodyValue(_, _)
BodyValue(b, acc) ==
    IF b = <<>> THEN acc
    ELSE IF Head(b) = "_" THEN BodyValue(Tail(b), acc)
    ELSE BodyValue(Tail(b), 10 * acc + DigitVal(Head(b)))

PyInt_lenient(s) ==
    LET t == RStrip(LStrip(s))
        signed == t # <<>> /\ Head(t) \in {"+", "-"}
        body == IF signed THEN Tail(t) ELSE t
        mag == BodyValue(body, 0)
    IN  IF ValidBody(body)
        THEN [ok |-> TRUE, val |-> IF signed /\ Head(t) = "-" THEN 0 - mag ELSE mag]
        ELSE [ok |-> TRUE, val |-> 0]

\* int(s) for a str s: surrounding whitespace is stripped, one optional sign,
\* then decimal digits; anything else raises ValueError (ok = FALSE)
PyInt(s) ==
    LET t == RStrip(LStrip(s))
        signed == t # <<>> /\ Head(t) \in {"+", "-"}
        body == IF signed THEN Tail(t) ELSE t
        mag == BodyValue(body, 0)
    IN  IF ValidBody(body)
        THEN [ok |-> TRUE, val |-> IF signed /\ Head(t) = "-" THEN 0 - mag ELSE mag]
        ELSE [ok |-> FALSE, val |-> 0]

RECURSIVE Dec(_)
Dec(n) ==
    IF n < 10 THEN <<Digits[n + 1]>>
    ELSE Dec(n \div 10) \o <<Digits[(n % 10) + 1]>>

\* f"{n}" for an int n
PyStr(n) == IF n < 0 THEN <<"-">> \o Dec(0 - n) ELSE Dec(n)

NamePrefix == <<"p", "r", "i", "m", "e", "s", "_">>

NameSuffix == <<".", "t", "x", "t">>

OutputName_verbatim(a1, a2, s, e) ==
    NamePrefix \o a1 \o <<"_">> \o a2 \o NameSuffix

\* f"primes_{start}_{end}.txt"; a1, a2 are the argument texts, s, e the
\* parsed integers the f-string formats
OutputName(a1, a2, s, e) ==
    NamePrefix \o PyStr(s) \o <<"_">> \o PyStr(e) \o NameSuffix

FormatLine_bare(p) == PyStr(p)

\* f"{prime}\n"
FormatLine(p) == PyStr(p) \o <<"\n">>

-----------------------------------------------------------------------------
(* is_prime *)

LoopCond_strict(iv, n) == iv * iv < n

\* the while condition of is_prime
LoopCond(iv, n) == iv * iv <= n

NextI_stuck(iv) == iv

\* i += 6
NextI(iv) == iv + 6

\* `return v` from is_prime: back to the for loop of find_primes, or to the
\* caller when is_prime is the entry point
IsPrimeReturn(v) ==
    /\ ip_ret' = v
    /\ pc' = IF mode = "prime" THEN "returned" ELSE "fp_ret"

\* is_prime up to the loop: the three early returns and i = 5
IsPrimeEntry ==
    /\ pc = "ip_entry"
    /\ IF num <= 1 THEN IsPrimeReturn(FALSE) /\ UNCHANGED i
       ELSE IF num <= 3 THEN IsPrimeReturn(TRUE) /\ UNCHANGED i
       ELSE IF num % 2 = 0 \/ num % 3 = 0 THEN IsPrimeReturn(FALSE) /\ UNCHANGED i
       ELSE i' = 5 /\ pc' = "ip_loop" /\ UNCHANGED ip_ret
    /\ UNCHANGED <<mode, argv, start, end, parsed, cur, num, fp_primes, visited,
                   scanned, primes, output_file, widx, handle, opens, fs, fs0,
                   stdout, exc, exit_code, prev_exc>>

\* one evaluation of the while condition and, when it holds, of the body
IsPrimeLoop ==
    /\ pc = "ip_loop"
    /\ IF LoopCond(i, num)
       THEN IF num % i = 0 \/ num % (i + 2) = 0
            THEN IsPrimeReturn(FALSE) /\ UNCHANGED i
            ELSE i' = NextI(i) /\ UNCHANGED <<pc, ip_ret>>
       ELSE IsPrimeReturn(TRUE) /\ UNCHANGED i
    /\ UNCHANGED <<mode, argv, start, end, parsed, cur, num, fp_primes, visited,
                   scanned, primes, output_file, widx, handle, opens, fs, fs0,
                   stdout, exc, exit_code, prev_exc>>

-----------------------------------------------------------------------------
(* find_primes *)

RangeStop_exclusive(e) == e

\* the stop value of range(start, end + 1)
RangeStop(e) == e + 1

ForHasNext_noteq(c, stop) == c # stop

\* whether the range iterator yields another value
ForHasNext(c, stop) == c < stop

\* primes = [] and the creation of the range iterator
FindPrimesEntry ==
    /\ pc = "fp_entry"
    /\ fp_primes' = <<>>
    /\ cur' = start
    /\ pc' = "fp_for"
    /\ UNCHANGED <<mode, argv, start, end, parsed, num, i, ip_ret, visited,
                   scanned, primes, output_file, widx, handle, opens, fs, fs0,
                   stdout, exc, exit_code, prev_exc>>

\* the head of the for loop: bind num and call is_prime(num), or leave the
\* loop and return primes to the caller
FindPrimesFor ==
    /\ pc = "fp_for"
    /\ IF ForHasNext(cur, RangeStop(end))
       THEN /\ num' = cur
            /\ cur' = cur + 1
            /\ visited' = Append(visited, cur)
            /\ pc' = "ip_entry"
            /\ UNCHANGED <<primes, scanned>>
       ELSE /\ primes' = fp_primes
            /\ scanned' = TRUE
            /\ pc' = IF mode = "driver" THEN "name" ELSE "returned"
            /\ UNCHANGED <<num, cur, visited>>
    /\ UNCHANGED <<mode, argv, start, end, parsed, i, ip_ret, fp_primes,
                   output_file, widx, handle, opens, fs, fs0, stdout, exc,
                   exit_code, prev_exc>>

\* if is_prime(num): primes.append(num)
FindPrimesAppend ==
    /\ pc = "fp_ret"
    /\ fp_primes' = IF ip_ret THEN Append(fp_primes, num) ELSE fp_primes
    /\ pc' = "fp_for"
    /\ UNCHANGED <<mode, argv, start, end, parsed, cur, num, i, ip_ret, visited,
                   scanned, primes, output_file, widx, handle, opens, fs, fs0,
                   stdout, exc, exit_code, prev_exc>>

-----------------------------------------------------------------------------
(* The driver. *)

ProgName == <<"prime_search.py">>

Usage == "Usage: python prime_search.py <start> <end>"

WrongArgCount_atleast(a) == Len(a) < 3

\* len(sys.argv) != 3
WrongArgCount(a) == Len(a) # 3

\* an exception nothing catches: the interpreter prints the traceback and
\* exits with status 1
Uncaught(e) ==
    /\ exc' = e
    /\ exit_code' = 1
    /\ pc' = "exit"

\* the argument-count check, and on failure print(...) and sys.exit(1)
MainCheckArgs ==
    /\ pc = "main"
    /\ IF WrongArgCount(argv)
       THEN /\ stdout' = Append(stdout, Usage)
            /\ exc' = "SystemExit"
            /\ exit_code' = 1
            /\ pc' = "exit"
       ELSE /\ pc' = "parse_start"
            /\ UNCHANGED <<stdout, exc, exit_code>>
    /\ UNCHANGED <<mode, argv, start, end, parsed, cur, num, i, ip_ret, fp_primes,
                   visited, scanned, primes, output_file, widx, handle, opens,
                   fs, fs0, prev_exc>>

\* start = int(sys.argv[1])
ParseStart ==
    /\ pc = "parse_start"
    /\ LET r == PyInt(argv[2])
       IN  IF r.ok
           THEN /\ start' = r.val
                /\ parsed' = parsed + 1
                /\ pc' = "parse_end"
                /\ UNCHANGED <<exc, exit_code>>
           ELSE /\ Uncaught("ValueError")
                /\ UNCHANGED <<start, parsed>>
    /\ UNCHANGED <<mode, argv, end, cur, num, i, ip_ret, fp_primes, visited,
                   scanned, primes, output_file, widx, handle, opens, fs, fs0,
                   stdout, prev_exc>>

\* end = int(sys.argv[2]), then the call find_primes(start, end)
ParseEnd ==
    /\ pc = "parse_end"
    /\ LET r == PyInt(argv[3])
       IN  IF r.ok
           THEN /\ end' = r.val
                /\ parsed' = parsed + 1
                /\ pc' = "fp_entry"
                /\ UNCHANGED <<exc, exit_code>>
           ELSE /\ Uncaught("ValueError")
                /\ UNCHANGED <<end, parsed>>
    /\ UNCHANGED <<mode, argv, start, cur, num, i, ip_ret, fp_primes, visited,
                   scanned, primes, output_file, widx, handle, opens, fs, fs0,
                   stdout, prev_exc>>

\* output_file = f"primes_{start}_{end}.txt"
FormatName ==
    /\ pc = "name"
    /\ output_file' = OutputName(argv[2], argv[3], start, end)
    /\ pc' = "open"
    /\ UNCHANGED <<mode, argv, start, end, parsed, cur, num, i, ip_ret, fp_primes,
                   visited, scanned, primes, widx, handle, opens, fs, fs0,
                   stdout, exc, exit_code, prev_exc>>

OpenW_append(f, name) ==
    [n \in (DOMAIN f) \cup {name} |->
        IF n \in DOMAIN f THEN f[n] ELSE <<>>]

\* the filesystem after open(name, "w") succeeds: the file exists and is empty
OpenW(f, name) ==
    [n \in (DOMAIN f) \cup {name} |-> IF n = name THEN <<>> ELSE f[n]]

\* the filesystem after `data` reaches the end of file `name`
WriteData(f, name, data) == [f EXCEPT ![name] = @ \o data]

WithExit_leak(h) == h

\* leaving the with block, normally or by an exception, closes f
WithExit(h) == "closed"

\* open(output_file, "w") succeeds
OpenOk ==
    /\ pc = "open"
    /\ fs' = OpenW(fs, output_file)
    /\ handle' = "open"
    /\ opens' = opens + 1
    /\ widx' = 1
    /\ pc' = "write"
    /\ UNCHANGED <<mode, argv, start, end, parsed, cur, num, i, ip_ret, fp_primes,
                   visited, scanned, primes, output_file, fs0, stdout, exc,
                   exit_code, prev_exc>>

\* open(output_file, "w") raises OSError: nothing is created or truncated
OpenFail ==
    /\ pc = "open"
    /\ opens' = opens + 1
    /\ Uncaught("OSError")
    /\ UNCHANGED <<mode, argv, start, end, parsed, cur, num, i, ip_ret, fp_primes,
                   visited, scanned, primes, output_file, widx, handle, fs, fs0,
                   stdout, prev_exc>>

\* one iteration of the write loop: f.write(f"{prime}\n") succeeds
WriteOk ==
    /\ pc = "write"
    /\ widx <= Len(primes)
    /\ fs' = WriteData(fs, output_file, FormatLine(primes[widx]))
    /\ widx' = widx + 1
    /\ UNCHANGED <<mode, pc, argv, start, end, parsed, cur, num, i, ip_ret,
                   fp_primes, visited, scanned, primes, output_file, handle,
                   opens, fs0, stdout, exc, exit_code, prev_exc>>

\* one iteration of the write loop fails with OSError after any proper prefix
\* of the line has reached the file; the with block closes f on the way out
WriteFail ==
    /\ pc = "write"
    /\ widx <= Len(primes)
    /\ \E k \in 0..(Len(FormatLine(primes[widx])) - 1) :
           fs' = WriteData(fs, output_file,
                           SubSeq(FormatLine(primes[widx]), 1, k))
    /\ handle' = WithExit(handle)
    /\ Uncaught("OSError")
    /\ UNCHANGED <<mode, argv, start, end, parsed, cur, num, i, ip_ret, fp_primes,
                   visited, scanned, primes, output_file, widx, opens, fs0,
                   stdout, prev_exc>>

\* the write loop is over: the with block closes f and the script ends
CloseOk ==
    /\ pc = "write"
    /\ widx > Len(primes)
    /\ handle' = WithExit(handle)
    /\ exit_code' = 0
    /\ pc' = "exit"
    /\ UNCHANGED <<mode, argv, start, end, parsed, cur, num, i, ip_ret, fp_primes,
                   visited, scanned, primes, output_file, widx, opens, fs, fs0,
                   stdout, exc, prev_exc>>

\* the write loop is over and the close of the with block raises OSError; the
\* file object is closed all the same
CloseFail ==
    /\ pc = "write"
    /\ widx > Len(primes)
    /\ handle' = WithExit(handle)
    /\ Uncaught("OSError")
    /\ UNCHANGED <<mode, argv, start, end, parsed, cur, num, i, ip_ret, fp_primes,
                   visited, scanned, primes, output_file, widx, opens, fs, fs0,
                   stdout, prev_exc>>

\* the environment runs the script again with the same arguments, on the
\* filesystem the previous run left
Rerun ==
    /\ mode = "driver"
    /\ pc = "exit"
    /\ pc' = "main"
    /\ prev_exc' = exc
    /\ fs0' = fs
    /\ start' = 0
    /\ end' = 0
    /\ parsed' = 0
    /\ cur' = 0
    /\ num' = 0
    /\ i' = 0
    /\ ip_ret' = FALSE
    /\ fp_primes' = <<>>
    /\ visited' = <<>>
    /\ scanned' = FALSE
    /\ primes' = <<>>
    /\ output_file' = <<>>
    /\ widx' = 0
    /\ handle' = "none"
    /\ opens' = 0
    /\ stdout' = <<>>
    /\ exc' = "none"
    /\ exit_code' = -1
    /\ UNCHANGED <<mode, argv, fs>>

-----------------------------------------------------------------------------
(* Inputs. *)

\* argument texts: the integers 10, 20, 1, -5, 30, one literal int() accepts
\* that is not in canonical form (7), and two texts int() rejects
ArgPool ==
    { <<"1", "0">>, <<"2", "0">>, <<"1">>, <<"-", "5">>, <<"3", "0">>,
      <<" ", "+", "7">>, <<>>, <<"1", "x">> }

ArgLists == UNION { [1..n -> ArgPool] : n \in 0..MaxArgs }

EmptyFS == <<>>

Junk == <<"9", "\n", "4">>

\* a working directory that already holds output files of earlier runs and
\* an unrelated file
JunkFS ==
    [n \in { NamePrefix \o <<"1", "0", "_", "2", "0">> \o NameSuffix,
             NamePrefix \o <<"1", "_", "1", "0">> \o NameSuffix,
             NamePrefix \o <<"-", "5", "_", "1">> \o NameSuffix,
             NamePrefix \o <<"-", "5", "_", "7">> \o NameSuffix,
             NamePrefix \o <<"2", "0", "_", "1", "0">> \o NameSuffix,
             <<"n", "o", "t", "e", "s">> } |-> Junk]

InitCommon ==
    /\ parsed = 0
    /\ cur = 0
    /\ i = 0
    /\ ip_ret = FALSE
    /\ fp_primes = <<>>
    /\ visited = <<>>
    /\ scanned = FALSE
    /\ primes = <<>>
    /\ output_file = <<>>
    /\ widx = 0
    /\ handle = "none"
    /\ opens = 0
    /\ fs0 = fs
    /\ stdout = <<>>
    /\ exc = "none"
    /\ exit_code = -1
    /\ prev_exc = "first"

\* the script is started with any list of arguments, in an empty or a used
\* working directory
Init ==
    /\ mode = "driver"
    /\ pc = "main"
    /\ argv \in { ProgName \o a : a \in ArgLists }
    /\ fs \in {EmptyFS, JunkFS}
    /\ start = 0
    /\ end = 0
    /\ num = 0
    /\ InitCommon

Next ==
    \/ MainCheckArgs
    \/ ParseStart
    \/ ParseEnd
    \/ FindPrimesEntry
    \/ FindPrimesFor
    \/ FindPrimesAppend
    \/ IsPrimeEntry
    \/ IsPrimeLoop
    \/ FormatName
    \/ OpenOk
    \/ OpenFail
    \/ WriteOk
    \/ WriteFail
    \/ CloseOk
    \/ CloseFail
    \/ Rerun

Spec == Init /\ [][Next]_vars

\* the steps of the interpreter, which runs the script to its end; a new run
\* is the environment's choice
Step ==
    \/ MainCheckArgs
    \/ ParseStart
    \/ ParseEnd
    \/ FindPrimesEntry
    \/ FindPrimesFor
    \/ FindPrimesAppend
    \/ IsPrimeEntry
    \/ IsPrimeLoop
    \/ FormatName
    \/ OpenOk
    \/ OpenFail
    \/ WriteOk
    \/ WriteFail
    \/ CloseOk
    \/ CloseFail

FairSpec == Init /\ [][Next]_vars /\ WF_vars(Step)

\* find_primes called directly on every pair of a range of integers
InitScan ==
    /\ mode = "scan"
    /\ pc = "fp_entry"
    /\ argv = ProgName
    /\ fs = EmptyFS
    /\ start \in (0 - ScanNeg)..ScanMax
    /\ end \in (0 - ScanNeg)..ScanMax
    /\ num = 0
    /\ InitCommon

NextScan ==
    \/ FindPrimesEntry
    \/ FindPrimesFor
    \/ FindPrimesAppend
    \/ IsPrimeEntry
    \/ IsPrimeLoop

SpecScan == InitScan /\ [][NextScan]_vars

\* is_prime called directly on every integer of a range
InitPrime ==
    /\ mode = "prime"
    /\ pc = "ip_entry"
    /\ argv = ProgName
    /\ fs = EmptyFS
    /\ start = 0
    /\ end = 0
    /\ num \in (0 - NegNums)..MaxNum
    /\ InitCommon

NextPrime ==
    \/ IsPrimeEntry
    \/ IsPrimeLoop

SpecPrime == InitPrime /\ [][NextPrime]_vars

-----------------------------------------------------------------------------
(* Reference definitions the properties are stated with. *)

\* n is prime: n >= 2 and no d with 2 <= d < n divides n
RefPrime(n) == n >= 2 /\ \A d \in 2..(n - 1) : n % d # 0

\* the ascending sequence of the primes of lo..hi
RECURSIVE RefPrimes(_, _)
RefPrimes(lo, hi) ==
    IF lo > hi THEN <<>>
    ELSE IF RefPrime(hi) THEN Append(RefPrimes(lo, hi - 1), hi)
    ELSE RefPrimes(lo, hi - 1)

\* the decimal numeral of n, for -100 < n < 100
RefText(n) ==
    LET m == IF n < 0 THEN 0 - n ELSE n
        d == IF m < 10 THEN <<Digits[m + 1]>>
             ELSE <<Digits[(m \div 10) + 1], Digits[(m % 10) + 1]>>
    IN  IF n < 0 THEN <<"-">> \o d ELSE d

\* the numerals of a sequence of integers, each followed by a newline
RECURSIVE RefLines(_)
RefLines(ps) ==
    IF ps = <<>> THEN <<>>
    ELSE RefText(Head(ps)) \o <<"\n">> \o RefLines(Tail(ps))

IsPrefix(a, b) == Len(a) <= Len(b) /\ a = SubSeq(b, 1, Len(a))

\* the argument texts that are no integer literal
InvalidArgs == { <<>>, <<"1", "x">> }

\* the integer each valid argument text denotes
ArgValue(a) ==
    CASE a = <<"1", "0">> -> 10
      [] a = <<"2", "0">> -> 20
      [] a = <<"1">> -> 1
      [] a = <<"-", "5">> -> -5
      [] a = <<"3", "0">> -> 30
      [] a = <<" ", "+", "7">> -> 7

TwoArgs == mode = "driver" /\ Len(argv) = 3

ValidArgs == TwoArgs /\ argv[2] \notin InvalidArgs /\ argv[3] \notin InvalidArgs

Terminal == mode = "driver" /\ pc = "exit"

Succeeded == Terminal /\ exc = "none"

\* the file name and content a successful run of the arguments must leave
ExpectedName ==
    NamePrefix \o RefText(ArgValue(argv[2])) \o <<"_">>
               \o RefText(ArgValue(argv[3])) \o NameSuffix

ExpectedContent == RefLines(RefPrimes(ArgValue(argv[2]), ArgValue(argv[3])))

\* file `name` apart, filesystem g is filesystem f
SameExcept(f, g, name) ==
    /\ DOMAIN g = (DOMAIN f) \cup {name}
    /\ \A n \in DOMAIN f : n # name => g[n] = f[n]

-----------------------------------------------------------------------------
(* Properties. *)

\* C1: whenever is_prime(num) returns, for any integer num, it returns TRUE
\* exactly when num is prime by the reference definition; it returns FALSE
\* for num <= 1 and for 4, 6, 8, 9, 10, 12, 25, 35, 49, 77, 121 and TRUE for
\* 2, 3, 5, 7, 11, 13.
IsPrimeCorrect ==
    (mode = "prime" /\ pc = "returned") =>
        /\ ip_ret <=> RefPrime(num)
        /\ num <= 1 => ~ip_ret
        /\ num \in {2, 3, 5, 7, 11, 13} => ip_ret
        /\ num \in {4, 6, 8, 9, 10, 12, 25, 35, 49, 77, 121} => ~ip_ret

\* is_prime(121) has returned FALSE from the second iteration of its loop
IsPrimeCorrectWitness ==
    mode = "prime" /\ pc = "returned" /\ num = 121 /\ i = 11 /\ ~ip_ret

\* C2: whenever find_primes(start, end) returns, the returned sequence is
\* strictly ascending and its elements are exactly the primes n with
\* start <= n <= end; (10, 20) gives 11, 13, 17, 19, (1, 10) gives 2, 3, 5, 7
\* and (-5, 1) gives the empty sequence.
FindPrimesCorrect ==
    (mode = "scan" /\ pc = "returned") =>
        /\ \A j, k \in 1..Len(primes) : j < k => primes[j] < primes[k]
        /\ {primes[k] : k \in 1..Len(primes)} = {n \in start..end : RefPrime(n)}
        /\ (start = 10 /\ end = 20) => primes = <<11, 13, 17, 19>>
        /\ (start = 1 /\ end = 10) => primes = <<2, 3, 5, 7>>
        /\ (start = -5 /\ end = 1) => primes = <<>>

\* find_primes(10, 19) has returned a list that ends with the bound 19
FindPrimesCorrectWitness ==
    /\ mode = "scan" /\ pc = "returned"
    /\ start = 10 /\ end = 19
    /\ primes = <<11, 13, 17, 19>>

\* C3: in a run whose arguments parse to start > end the scan yields no
\* value and returns the empty sequence, the run does not end with a usage or
\* parse error, and it goes on to open the output file: a run that ends
\* without error has created or truncated the file and left it empty.
ReversedRangeEmpty ==
    (mode = "driver" /\ parsed = 2 /\ start > end) =>
        /\ visited = <<>> /\ fp_primes = <<>> /\ primes = <<>>
        /\ exc \in {"none", "OSError"}
        /\ Terminal => opens = 1
        /\ Succeeded => /\ output_file = ExpectedName
                        /\ output_file \in DOMAIN fs
                        /\ fs[output_file] = <<>>

\* a run of a reversed range has ended without error and emptied a file that
\* held content before
ReversedRangeEmptyWitness ==
    /\ Succeeded /\ start > end
    /\ output_file \in DOMAIN fs0 /\ fs0[output_file] # <<>>
    /\ fs[output_file] = <<>>

\* C4: a run with a number of arguments other than two never parses, scans
\* or opens anything and leaves the filesystem alone; it ends having printed
\* the usage message, with exit status 1.
UsageErrorNoIO ==
    (mode = "driver" /\ Len(argv) # 3) =>
        /\ pc \in {"main", "exit"}
        /\ parsed = 0 /\ visited = <<>> /\ ~scanned
        /\ opens = 0 /\ handle = "none" /\ fs = fs0
        /\ Terminal => (stdout = <<Usage>> /\ exit_code = 1 /\ exc = "SystemExit")

\* a run with three arguments has ended with the usage message
UsageErrorNoIOWitness ==
    Terminal /\ Len(argv) = 4 /\ stdout = <<Usage>> /\ fs0 = JunkFS

\* C5: a run with two arguments of which at least one is no integer literal
\* never scans or opens anything and leaves the filesystem alone; it ends
\* with the uncaught ValueError (exit status 1).
ParseErrorNoFile ==
    (TwoArgs /\ ~ValidArgs) =>
        /\ pc \in {"main", "parse_start", "parse_end", "exit"}
        /\ visited = <<>> /\ ~scanned
        /\ opens = 0 /\ handle = "none" /\ fs = fs0
        /\ Terminal => (exc = "ValueError" /\ exit_code = 1 /\ stdout = <<>>)

\* a run whose first argument parsed and whose second did not has ended
ParseErrorNoFileWitness ==
    /\ Terminal /\ exc = "ValueError" /\ parsed = 1
    /\ argv[2] \notin InvalidArgs /\ argv[3] \in InvalidArgs
    /\ fs0 = JunkFS

\* C6 as stated: at the end of every run either the output file holds the
\* complete prime list or the filesystem is as it was before the run.
AllOrNothing ==
    Terminal =>
        \/ fs = fs0
        \/ /\ ValidArgs
           /\ ExpectedName \in DOMAIN fs
           /\ fs[ExpectedName] = ExpectedContent

\* C6 as amended: at the end of every run either the filesystem is as it was
\* before the run, or the run opened the output file and only that file
\* differs: it holds a prefix of the complete list of lines and nothing of its
\* earlier content, the whole list when the run ended without error. A run
\* that ends with a usage error, a parse error or a failed open leaves the
\* filesystem as it was.
PrefixOrNothing ==
    Terminal =>
        /\ \/ fs = fs0
           \/ /\ ValidArgs /\ handle = "closed"
              /\ SameExcept(fs0, fs, ExpectedName)
              /\ IsPrefix(fs[ExpectedName], ExpectedContent)
        /\ Succeeded => fs[ExpectedName] = ExpectedContent
        /\ handle = "none" => fs = fs0

\* a run has ended by a failed write after a complete line and part of the
\* next, with the file's earlier content gone
PrefixOrNothingWitness ==
    /\ Terminal /\ exc = "OSError" /\ widx = 2
    /\ output_file \in DOMAIN fs0
    /\ fs[output_file] # fs0[output_file]
    /\ Len(fs[output_file]) > Len(RefLines(<<primes[1]>>))
    /\ fs[output_file] # ExpectedContent

\* C7: a run with two integer arguments that ends without error leaves the
\* file primes_{start}_{end}.txt, named with the decimal numerals of the
\* parsed integers, holding exactly the primes of [start, end] in ascending
\* order, one numeral and a newline each, and leaves every other file as it
\* was.
OutputFileExact ==
    Succeeded =>
        /\ ValidArgs
        /\ start = ArgValue(argv[2]) /\ end = ArgValue(argv[3])
        /\ output_file = ExpectedName
        /\ fs = [n \in (DOMAIN fs0) \cup {ExpectedName} |->
                    IF n = ExpectedName THEN ExpectedContent ELSE fs0[n]]

\* the run of ("-5", " +7") has ended without error in a used directory,
\* replacing the junk of primes_-5_7.txt
OutputFileExactWitness ==
    /\ Succeeded
    /\ argv[2] = <<"-", "5">> /\ argv[3] = <<" ", "+", "7">>
    /\ fs0 = JunkFS
    /\ fs[output_file] = <<"2", "\n", "3", "\n", "5", "\n", "7", "\n">>

\* C8: a run that ends without error on the filesystem left by a run of the
\* same arguments that ended without error leaves the filesystem as it found
\* it.
RunIdempotent ==
    (Succeeded /\ prev_exc = "none") => fs = fs0

\* a second successful run has ended on a directory that held junk in the
\* output file before the first
RunIdempotentWitness ==
    /\ Succeeded /\ prev_exc = "none"
    /\ <<"n", "o", "t", "e", "s">> \in DOMAIN fs
    /\ output_file \in DOMAIN JunkFS
    /\ Len(primes) > 1
    /\ fs[output_file] = ExpectedContent

\* C9: a run opens the file at most once and only after both arguments are
\* parsed and the scan has returned; the file is open only during the write
\* loop, and at the end of every run that opened it, it is closed.
HandleReleased ==
    mode = "driver" =>
        /\ opens <= 1
        /\ (opens > 0 \/ pc \in {"open", "write"}) => (parsed = 2 /\ scanned)
        /\ handle = "open" => pc = "write"
        /\ handle # "none" => opens = 1
        /\ Terminal => handle # "open"
        /\ (Terminal /\ exc = "none") => handle = "closed"

\* a run has ended by a write that failed partway through the list, with the
\* file closed
HandleReleasedWitness ==
    /\ Terminal /\ exc = "OSError" /\ handle = "closed"
    /\ widx > 1 /\ widx <= Len(primes)

\* the values range(start, end + 1) yields, in order
RefRange(s, e) == [k \in 1..(IF e >= s THEN e - s + 1 ELSE 0) |-> s + k - 1]

\* the four ways a run ends
UsageExit == exc = "SystemExit" /\ exit_code = 1 /\ stdout = <<Usage>>

ParseFailure == exc = "ValueError" /\ exit_code = 1

FilesystemFailure == exc = "OSError" /\ exit_code = 1

SuccessfulWrite == exc = "none" /\ exit_code = 0

\* C10: every run that starts ends. On the way, the loop of is_prime has i
\* in 5, 11, 17, ... with the square of the previous i at most num, the scan
\* has yielded exactly the integers of [start, end] once each in ascending
\* order when it returns, and the run ends in exactly one of usage exit,
\* parse failure, filesystem failure and successful write.
RunTerminates ==
    /\ (pc = "main") ~> (pc = "exit")
    /\ [](pc = "ip_loop" =>
            /\ i >= 5 /\ (i - 5) % 6 = 0
            /\ i > 5 => (i - 6) * (i - 6) <= num)
    /\ [](scanned => visited = RefRange(start, end))
    /\ [](Terminal =>
            Cardinality({k \in 1..4 :
                <<UsageExit, ParseFailure, FilesystemFailure,
                  SuccessfulWrite>>[k]}) = 1)

\* a run has ended with a successful write after a scan in which the loop of
\* is_prime ran to i = 11
RunTerminatesWitness ==
    /\ Succeeded /\ SuccessfulWrite
    /\ i = 11 /\ Len(visited) > 1 /\ Len(primes) > 1

=============================================================================
